---------------------------- MODULE Spec2Model ----------------------------
(* A model of src/src/recorder.ts: readHarFile (the normalizer of a HAR     *)
(* trace into mock records) and recordHar (the capture controller that      *)
(* drives one recording session and persists the normalized result).        *)
(*                                                                          *)
(* JavaScript strings that the code searches, splits or matches (URLs,      *)
(* routes, mime types, file paths) are sequences of one-character strings,  *)
(* so that String.includes, String.replace, String.split and RegExp.test    *)
(* are computed character by character as the engine computes them.         *)
(* Body texts are atomic strings; base64 decoding and JSON.parse are given  *)
(* by their values on the body texts of the model.                          *)
EXTENDS Naturals, Sequences, FiniteSets

(***************************************************************************)
(* Bounds                                                                  *)
(***************************************************************************)
\* the largest number of exchanges one capture session observes
MaxEntries == 2
\* the number of times waitForFileExists polls again before it gives up
RetryBudget == 1

(***************************************************************************)
(* String primitives of the JavaScript runtime, on character sequences     *)
(***************************************************************************)
\* the set of positions at which pat occurs in s
Occurrences(s, pat) ==
  { i \in 1..(Len(s) + 1) :
      /\ i + Len(pat) - 1 <= Len(s)
      /\ SubSeq(s, i, i + Len(pat) - 1) = pat }

\* the least element of a non-empty set of naturals
Least(S) == CHOOSE i \in S : \A j \in S : i <= j

\* String.prototype.includes
Includes(s, pat) == Occurrences(s, pat) # {}

\* String.prototype.replace(pat, rep) with a string pattern: the first
\* occurrence only is replaced
ReplaceFirst(s, pat, rep) ==
  IF Occurrences(s, pat) = {} THEN s
  ELSE LET i == Least(Occurrences(s, pat))
       IN SubSeq(s, 1, i - 1) \o rep \o SubSeq(s, i + Len(pat), Len(s))

\* String.prototype.split(sep)[0]
SplitHead(s, sep) ==
  IF Occurrences(s, sep) = {} THEN s
  ELSE SubSeq(s, 1, Least(Occurrences(s, sep)) - 1)

\* the part of s after the first occurrence of sep (empty when sep is absent)
AfterFirst(s, sep) ==
  IF Occurrences(s, sep) = {} THEN << >>
  ELSE SubSeq(s, Least(Occurrences(s, sep)) + Len(sep), Len(s))

(***************************************************************************)
(* Literals of recorder.ts                                                 *)
(***************************************************************************)
HttpsPrefix == <<"h","t","t","p","s",":","/","/">>
HttpPrefix == <<"h","t","t","p",":","/","/">>
Slash == <<"/">>
JsonExt == <<".","j","s","o","n">>
TempHarExt == <<".","t","e","m","p",".","h","a","r">>

\* the alternatives of /(.png)|(.jpeg)|(.webp)|(.jpg)|(.gif)|(.css)|(.js)|(.woff2)/
\* without their leading dot, which the regular expression leaves unescaped
UrlPatternTails ==
  { <<"p","n","g">>, <<"j","p","e","g">>, <<"w","e","b","p">>, <<"j","p","g">>,
    <<"g","i","f">>, <<"c","s","s">>, <<"j","s">>, <<"w","o","f","f","2">> }

\* the alternatives of /(image)|(font)|(javascript)/
MimePatternWords ==
  { <<"i","m","a","g","e">>, <<"f","o","n","t">>,
    <<"j","a","v","a","s","c","r","i","p","t">> }

\* RegExp.test of the URL pattern: an unescaped "." matches any one character,
\* the pattern is not anchored
UrlPatternTest(url) ==
  \E tail \in UrlPatternTails :
    \E i \in Occurrences(url, tail) : i >= 2

\* RegExp.test of the mime pattern
MimePatternTest(mimeType) ==
  \E w \in MimePatternWords : Includes(mimeType, w)

(***************************************************************************)
(* Body texts, base64 and JSON                                             *)
(***************************************************************************)
\* JSON values: an object is its set of <<key, value>> members
EmptyObject == [json |-> "object", members |-> {}]
ItemsObject == [json |-> "object", members |-> {<<"items", "[]">>}]
AOneObject == [json |-> "object", members |-> {<<"a", "1">>}]

\* the texts JSON.parse accepts, with their values; every other text makes
\* JSON.parse throw a SyntaxError
JsonTexts == { "{}", "{\"items\":[]}", "{\"a\":1}" }
JsonValid(text) == text \in JsonTexts
JsonParse(text) ==
  CASE text = "{}" -> EmptyObject
    [] text = "{\"items\":[]}" -> ItemsObject
    [] text = "{\"a\":1}" -> AOneObject

\* Buffer.from(text, "base64").toString(): the decoder drops the characters
\* outside the base64 alphabet and decodes the rest, so a text that is not
\* base64 (plain JSON, a form body) decodes to bytes that are no JSON text
Base64Decode(text) ==
  CASE text = "eyJpdGVtcyI6W119" -> "{\"items\":[]}"
    [] text = "eyJhIjoxfQ==" -> "{\"a\":1}"
    [] text = "e30=" -> "{}"
    [] text = "PGh0bWw+" -> "<html>"
    [] text = "{\"items\":[]}" -> "\\x8a\\xd7\\xa6"
    [] OTHER -> "\\xff"

(***************************************************************************)
(* The inputs of the model: routes, mock-set paths, observed exchanges     *)
(***************************************************************************)
RouteA == <<"h","t","t","p","s",":","/","/","a",".","i","o","/","p","a","g","e">>
RouteB == <<"h","t","t","p",":","/","/","b",".","i","o">>
Routes == { RouteA, RouteB }

PathJson == <<"t",".","m","o","c","k","s",".","j","s","o","n">>
PathBare == <<"t",".","m","o","c","k","s">>
FilePaths == { PathJson, PathBare }

UrlSameHost == <<"h","t","t","p","s",":","/","/","a",".","i","o","/","a","p","i","/","i","t","e","m","s">>
UrlApi == <<"h","t","t","p","s",":","/","/","b",".","i","o","/","a","p","i","/","i","t","e","m","s">>
UrlPng == <<"h","t","t","p","s",":","/","/","b",".","i","o","/","p",".","p","n","g">>
UrlStyle == <<"h","t","t","p","s",":","/","/","b",".","i","o","/","s","t","y","l","e">>
UrlJsonPath == <<"h","t","t","p","s",":","/","/","b",".","i","o","/","a","p","i","/","j","s","o","n">>
UrlImg == <<"h","t","t","p","s",":","/","/","b",".","i","o","/","i","m","g">>
UrlSubHost == <<"h","t","t","p","s",":","/","/","x","a",".","i","o","/","a","p","i","/","i","t","e","m","s">>
UrlUsers == <<"h","t","t","p","s",":","/","/","b",".","i","o","/","a","p","i","/","u","s","e","r","s","?","i","d","=","1">>

MimeJson == <<"a","p","p","l","i","c","a","t","i","o","n","/","j","s","o","n">>
MimePng == <<"i","m","a","g","e","/","p","n","g">>
MimeCss == <<"t","e","x","t","/","c","s","s">>

\* a HAR entry, with the fields readHarFile reads and the encoding the HAR
\* gives for the body of the response ("base64", or "" when the text is the
\* body as it is); a text of "" stands for an absent or empty body (both are
\* falsy)
Entry(url, postText, mimeType, text, encoding) ==
  [ request |-> [ url |-> url, postData |-> [ text |-> postText ] ],
    response |-> [ content |-> [ mimeType |-> mimeType, text |-> text,
                                 encoding |-> encoding ] ] ]

\* the exchanges a session can observe
Entries ==
  { Entry(UrlSameHost, "", MimeJson, "eyJpdGVtcyI6W119", "base64"),
    Entry(UrlApi, "", MimeJson, "eyJpdGVtcyI6W119", "base64"),
    Entry(UrlPng, "", MimePng, "iVBORw0K", "base64"),
    Entry(UrlImg, "", MimePng, "", ""),
    Entry(UrlStyle, "", MimeCss, "", ""),
    Entry(UrlJsonPath, "", MimeJson, "eyJpdGVtcyI6W119", "base64"),
    Entry(UrlSubHost, "", MimeJson, "eyJhIjoxfQ==", "base64"),
    Entry(UrlUsers, "{\"a\":1}", MimeJson, "eyJhIjoxfQ==", "base64"),
    Entry(UrlApi, "a=1", MimeJson, "e30=", "base64"),
    Entry(UrlApi, "", MimeJson, "PGh0bWw+", "base64"),
    Entry(UrlUsers, "", MimeJson, "{\"items\":[]}", "") }

(***************************************************************************)
(* readHarFile                                                             *)
(***************************************************************************)
\* endpointOfUrl of ./utils: the path component of the URL, with scheme, host
\* and query stripped
endpointOfUrl(url) ==
  LET rest == IF Includes(url, <<":","/","/">>) THEN AfterFirst(url, <<":","/","/">>) ELSE url
      fromPath == IF Includes(rest, Slash)
                  THEN SubSeq(rest, Least(Occurrences(rest, Slash)), Len(rest))
                  ELSE Slash
  IN SplitHead(fromPath, <<"?">>)

\* FilterPredicate without its first conjunct, the test of the host
FilterPredicate_NoHostTest(e, host) ==
  /\ ~ UrlPatternTest(e.request.url)
  /\ ~ MimePatternTest(e.response.content.mimeType)

\* the predicate of .filter(): an entry is kept when its URL does not contain
\* host, the URL pattern does not match and the mime pattern does not match
FilterPredicate(e, host) ==
  /\ ~ Includes(e.request.url, host)
  /\ ~ UrlPatternTest(e.request.url)
  /\ ~ MimePatternTest(e.response.content.mimeType)

\* a filter that collects the kept entries last to first
RECURSIVE FilterEntries_Reversed(_, _)
FilterEntries_Reversed(entries, host) ==
  IF entries = << >> THEN << >>
  ELSE LET rest == FilterEntries_Reversed(Tail(entries), host)
       IN IF FilterPredicate(Head(entries), host)
          THEN rest \o <<Head(entries)>>
          ELSE rest

\* Array.prototype.filter
RECURSIVE FilterEntries(_, _)
FilterEntries(entries, host) ==
  IF entries = << >> THEN << >>
  ELSE LET rest == FilterEntries(Tail(entries), host)
       IN IF FilterPredicate(Head(entries), host)
          THEN <<Head(entries)>> \o rest
          ELSE rest

\* const responseString = response.content.text ? Buffer.from(...) : "{}"
responseString(e) ==
  IF e.response.content.text # ""
  THEN Base64Decode(e.response.content.text)
  ELSE "{}"

\* request?.postData?.text || "{}"
requestText(e) ==
  IF e.request.postData.text # "" THEN e.request.postData.text ELSE "{}"

\* the callback of .map() throws when either JSON.parse throws
MapThrows(e) ==
  \/ ~ JsonValid(requestText(e))
  \/ ~ JsonValid(responseString(e))

\* the record the callback of .map() returns
ToRecord(e) ==
  [ url |-> endpointOfUrl(e.request.url),
    request |-> e.request,
    requestData |-> JsonParse(requestText(e)),
    response |-> JsonParse(responseString(e)) ]

\* Array.prototype.map over entries none of which throws
MapEntries(entries) == [ i \in 1..Len(entries) |-> ToRecord(entries[i]) ]

\* the content of a file: absent, a HAR trace, a HAR cut short (no valid
\* JSON), or a mock set
Absent == [ kind |-> "absent" ]
HarFile(entries) == [ kind |-> "har", entries |-> entries ]
TruncatedHar == [ kind |-> "truncated" ]
MockFile(records) == [ kind |-> "mocks", records |-> records ]

\* how the promise of readHarFile ends for a file content and a host:
\*   "rejected"  fs.readFile gave err, the promise is rejected
\*   "uncaught"  the callback of fs.readFile threw (JSON.parse of the file, of a
\*               body, or result.log.entries of a file that is no HAR): the
\*               exception leaves the callback, the promise is never settled
\*   "resolved"  with xgrRequests
readHarFile(content, host) ==
  IF content.kind = "absent" THEN [ status |-> "rejected", xgrRequests |-> << >> ]
  ELSE IF content.kind # "har" THEN [ status |-> "uncaught", xgrRequests |-> << >> ]
  ELSE LET kept == FilterEntries(content.entries, host)
       IN IF \E i \in 1..Len(kept) : MapThrows(kept[i])
          THEN [ status |-> "uncaught", xgrRequests |-> << >> ]
          ELSE [ status |-> "resolved", xgrRequests |-> MapEntries(kept) ]

(***************************************************************************)
(* recordHar                                                               *)
(***************************************************************************)
\* a harPath that is the path it is given
harPathOf_Same(path) == path

\* const harPath = filePath.replace(".json", ".temp.har")
harPathOf(path) == ReplaceFirst(path, JsonExt, TempHarExt)

\* route.replace("https://", "").replace("http://", "").split("/")[0]
HostOfRoute(r) ==
  SplitHead(ReplaceFirst(ReplaceFirst(r, HttpsPrefix, << >>), HttpPrefix, << >>), Slash)

\* the paths of the file system the model follows
Paths == FilePaths \cup { harPathOf(p) : p \in FilePaths }

\* what browser.close() leaves at harPath: the whole trace, a trace cut short,
\* or nothing
HarWrites == { "complete", "truncated", "none" }

\* the awaited calls of recordHar before its try block, in program order
CaptureSteps == { "launch", "newPage", "goto", "pause", "close" }

VARIABLES
  pc,        \* the position of recordHar
  route,     \* its argument route
  filePath,  \* its argument filePath
  fs,        \* the file system: the content of each path
  trace,     \* the exchanges the session has observed so far
  requests,  \* the local variable requests
  polls,     \* the polls waitForFileExists has made in vain
  failedAt,  \* the step whose error was thrown ("none" when there was none)
  logged,    \* the errors given to console.error
  outcome,   \* "running", "returned", "raised" or "uncaught"
  returned   \* the value recordHar returned

vars == << pc, route, filePath, fs, trace, requests, polls, failedAt, logged,
           outcome, returned >>

harPath == harPathOf(filePath)

\* recordHar is exported and takes any route and filePath; a mock set may
\* already be at filePath when it is called (an earlier capture, another
\* process capturing the same identity), and no file is at harPath unless
\* harPath is filePath
Init ==
  /\ pc = "launch"
  /\ route \in Routes
  /\ filePath \in FilePaths
  /\ \E before \in { Absent, MockFile(<< >>) } :
       fs = [ p \in Paths |-> IF p = filePath THEN before ELSE Absent ]
  /\ trace = << >>
  /\ requests = << >>
  /\ polls = 0
  /\ failedAt = "none"
  /\ logged = {}
  /\ outcome = "running"
  /\ returned = << >>

\* await chromium.launchPersistentContext(...) fulfils
Launch ==
  /\ pc = "launch"
  /\ pc' = "newPage"
  /\ UNCHANGED << route, filePath, fs, trace, requests, polls, failedAt, logged, outcome, returned >>

\* await browser.newPage() fulfils
NewPage ==
  /\ pc = "newPage"
  /\ pc' = "goto"
  /\ UNCHANGED << route, filePath, fs, trace, requests, polls, failedAt, logged, outcome, returned >>

\* a recordHar that goes on to browser.close() without await page.pause()
Goto_SkipsPause ==
  /\ pc = "goto"
  /\ pc' = "close"
  /\ UNCHANGED << route, filePath, fs, trace, requests, polls, failedAt, logged, outcome, returned >>

\* await page.goto(route) fulfils; recordHar suspends in page.pause()
Goto ==
  /\ pc = "goto"
  /\ pc' = "pause"
  /\ UNCHANGED << route, filePath, fs, trace, requests, polls, failedAt, logged, outcome, returned >>

\* while recordHar is suspended the session observes one more exchange
Observe ==
  /\ pc = "pause"
  /\ Len(trace) < MaxEntries
  /\ \E e \in Entries : trace' = Append(trace, e)
  /\ UNCHANGED << pc, route, filePath, fs, requests, polls, failedAt, logged, outcome, returned >>

\* the operator resumes: await page.pause() fulfils
Resume ==
  /\ pc = "pause"
  /\ pc' = "close"
  /\ UNCHANGED << route, filePath, fs, trace, requests, polls, failedAt, logged, outcome, returned >>

\* await browser.close() fulfils; the session has flushed its trace to harPath
Close ==
  /\ pc = "close"
  /\ \E w \in HarWrites :
       fs' = CASE w = "complete" -> [ fs EXCEPT ![harPath] = HarFile(trace) ]
               [] w = "truncated" -> [ fs EXCEPT ![harPath] = TruncatedHar ]
               [] w = "none" -> fs
  /\ pc' = "wait"
  /\ UNCHANGED << route, filePath, trace, requests, polls, failedAt, logged, outcome, returned >>

\* the position recordHar is left in when an awaited call outside its try
\* block rejects: the rejection is the rejection of recordHar
AfterCaptureThrow(step) == [ pc |-> "done", outcome |-> "raised" ]

\* one of the awaited calls before the try block rejects
CaptureThrows ==
  /\ pc \in CaptureSteps
  /\ pc' = AfterCaptureThrow(pc).pc
  /\ outcome' = AfterCaptureThrow(pc).outcome
  /\ failedAt' = pc
  /\ UNCHANGED << route, filePath, fs, trace, requests, polls, logged, returned >>

\* the path recordHar hands to waitForFileExists
WaitedPath == filePath

\* waitForFileExists finds the file
WaitFound ==
  /\ pc = "wait"
  /\ fs[WaitedPath].kind # "absent"
  /\ pc' = "read"
  /\ UNCHANGED << route, filePath, fs, trace, requests, polls, failedAt, logged, outcome, returned >>

\* waitForFileExists does not find the file and polls again
WaitRetry ==
  /\ pc = "wait"
  /\ fs[WaitedPath].kind = "absent"
  /\ polls < RetryBudget
  /\ polls' = polls + 1
  /\ UNCHANGED << pc, route, filePath, fs, trace, requests, failedAt, logged, outcome, returned >>

\* waitForFileExists gives up: it fails, and control passes to the catch block
WaitExhausted ==
  /\ pc = "wait"
  /\ fs[WaitedPath].kind = "absent"
  /\ polls >= RetryBudget
  /\ pc' = "catch"
  /\ failedAt' = "wait"
  /\ UNCHANGED << route, filePath, fs, trace, requests, polls, logged, outcome, returned >>

\* requests = await readHarFile(harPath, host)
ReadHarFile ==
  /\ pc = "read"
  /\ LET r == readHarFile(fs[harPath], HostOfRoute(route))
     IN CASE r.status = "resolved" ->
               /\ requests' = r.xgrRequests
               /\ pc' = "write"
               /\ UNCHANGED << failedAt, outcome >>
          [] r.status = "rejected" ->
               /\ pc' = "catch"
               /\ failedAt' = "read"
               /\ UNCHANGED << requests, outcome >>
          [] r.status = "uncaught" ->
               /\ pc' = "done"
               /\ outcome' = "uncaught"
               /\ failedAt' = "read"
               /\ UNCHANGED requests
  /\ UNCHANGED << route, filePath, fs, trace, polls, logged, returned >>

\* await writeFile(filePath, requests) fulfils
WriteFile ==
  /\ pc = "write"
  /\ fs' = [ fs EXCEPT ![filePath] = MockFile(requests) ]
  /\ pc' = "remove"
  /\ UNCHANGED << route, filePath, trace, requests, polls, failedAt, logged, outcome, returned >>

\* await writeFile(filePath, requests) rejects: control passes to the catch block
WriteFails ==
  /\ pc = "write"
  /\ pc' = "catch"
  /\ failedAt' = "write"
  /\ UNCHANGED << route, filePath, fs, trace, requests, polls, logged, outcome, returned >>

\* await removeFile(harPath), the last statement of the try block
RemoveFile ==
  /\ pc = "remove"
  /\ fs' = [ fs EXCEPT ![harPath] = Absent ]
  /\ pc' = "return"
  /\ UNCHANGED << route, filePath, trace, requests, polls, failedAt, logged, outcome, returned >>

\* a catch block that cleans up and then throws e again
Catch_Rethrows ==
  /\ pc = "catch"
  /\ logged' = logged \cup { failedAt }
  /\ fs' = [ fs EXCEPT ![harPath] = Absent ]
  /\ pc' = "done"
  /\ outcome' = "raised"
  /\ UNCHANGED << route, filePath, trace, requests, polls, failedAt, returned >>

\* catch (e) { console.error(e); await removeFile(harPath); }
Catch ==
  /\ pc = "catch"
  /\ logged' = logged \cup { failedAt }
  /\ fs' = [ fs EXCEPT ![harPath] = Absent ]
  /\ pc' = "return"
  /\ UNCHANGED << route, filePath, trace, requests, polls, failedAt, outcome, returned >>

\* return requests
Return ==
  /\ pc = "return"
  /\ returned' = requests
  /\ outcome' = "returned"
  /\ pc' = "done"
  /\ UNCHANGED << route, filePath, fs, trace, requests, polls, failedAt, logged >>

Next ==
  \/ Launch \/ NewPage \/ Goto \/ Observe \/ Resume \/ Close \/ CaptureThrows
  \/ WaitFound \/ WaitRetry \/ WaitExhausted
  \/ ReadHarFile \/ WriteFile \/ WriteFails \/ RemoveFile \/ Catch \/ Return

Spec == Init /\ [][Next]_vars

(***************************************************************************)
(* Notions the properties are stated in                                    *)
(***************************************************************************)
\* the host of a URL: what follows "://" up to the first "/" or "?"
UrlHostOf(url) ==
  SplitHead(SplitHead(AfterFirst(url, <<":","/","/">>), Slash), <<"?">>)

\* the path of a URL: from the first "/" after the host up to the query
UrlPathOf(url) ==
  LET rest == AfterFirst(url, <<":","/","/">>)
  IN IF Includes(rest, Slash)
     THEN SplitHead(SubSeq(rest, Least(Occurrences(rest, Slash)), Len(rest)), <<"?">>)
     ELSE << >>

\* s ends with suffix
EndsWith(s, suffix) ==
  /\ Len(suffix) <= Len(s)
  /\ SubSeq(s, Len(s) - Len(suffix) + 1, Len(s)) = suffix

\* s starts with prefix
StartsWith(s, prefix) ==
  /\ Len(prefix) <= Len(s)
  /\ SubSeq(s, 1, Len(prefix)) = prefix

\* the URL path has one of the extensions png, jpeg, webp, jpg, gif, css, js, woff2
HasStaticExtension(url) ==
  \E ext \in UrlPatternTails : EndsWith(UrlPathOf(url), <<".">> \o ext)

\* the content-type is of the class image, font, stylesheet or script
StaticContentType(mimeType) ==
  \/ StartsWith(mimeType, <<"i","m","a","g","e","/">>)
  \/ StartsWith(mimeType, <<"f","o","n","t","/">>)
  \/ mimeType = <<"t","e","x","t","/","c","s","s">>
  \/ EndsWith(mimeType, <<"j","a","v","a","s","c","r","i","p","t">>)

IsStaticAsset(e) ==
  \/ HasStaticExtension(e.request.url)
  \/ StaticContentType(e.response.content.mimeType)

\* the request of the entry went to the host of the target origin
IsSameHost(e) == UrlHostOf(e.request.url) = UrlHostOf(route)

\* some record of requests was made from the request of e
HasRecord(e) == \E i \in 1..Len(requests) : requests[i].request = e.request

\* readHarFile has read the whole trace of the session and its promise is
\* resolved: recordHar holds the records and is about to write them
TraceNormalized == pc = "write" /\ fs[harPath] = HarFile(trace)

\* readHarFile has read the whole trace of the session and is over, its
\* promise resolved or never to be settled
TraceRead ==
  /\ fs[harPath] = HarFile(trace)
  /\ \/ pc = "write"
     \/ pc = "done" /\ outcome = "uncaught"

\* recordHar got past closing the session and has come to its end
EndedAfterClose == pc = "done" /\ failedAt \notin CaptureSteps

C2_StaticAssetsAbsent ==
  \A k \in 1..Len(trace) : IsStaticAsset(trace[k]) => ~ HasRecord(trace[k])

\* C3 (as claimed): the mock set holds exactly one record for each entry that
\* is neither a same-host entry nor a static-asset entry, and no other record
C3_ExactlyTheApiExchanges ==
  TraceRead =>
    /\ \A k \in 1..Len(trace) :
         HasRecord(trace[k]) <=> ~ IsSameHost(trace[k]) /\ ~ IsStaticAsset(trace[k])
    /\ Len(requests) =
         Cardinality({ k \in 1..Len(trace) :
                         ~ IsSameHost(trace[k]) /\ ~ IsStaticAsset(trace[k]) })

\* C4 (as claimed): an execution of recordHar that got past closing the session
\* leaves no transient artifact at harPath when it has come to its end
C4_ArtifactRemoved ==
  EndedAfterClose => fs[harPath].kind = "absent"

\* C5 (as claimed): an error of any step up to and including the wait for the
\* artifact is logged, and recordHar returns an empty list
C5_CaptureErrorsSwallowed ==
  (pc = "done" /\ failedAt \in CaptureSteps \cup { "wait" }) =>
    /\ outcome = "returned"
    /\ returned = << >>
    /\ failedAt \in logged

\* C5 (amended): an error of the wait for the artifact is logged and recordHar
\* returns an empty list; an error of opening the session, navigating, waiting
\* for the resume or closing the session is the error of recordHar
C5_WaitErrorSwallowed ==
  /\ (pc = "done" /\ failedAt = "wait") =>
       /\ outcome = "returned"
       /\ returned = << >>
       /\ "wait" \in logged
  /\ (pc = "done" /\ failedAt \in CaptureSteps) =>
       /\ outcome = "raised"
       /\ logged = {}

\* the wait for the artifact failed after a session that observed traffic, and
\* recordHar has ended
C5_Witness ==
  /\ pc = "done"
  /\ failedAt = "wait"
  /\ trace # << >>

\* C6 (as claimed): when writing the mock set fails, recordHar raises the
\* failure instead of returning a result
C6_WriteFailurePropagates ==
  (pc = "done" /\ failedAt = "write") => outcome = "raised"

\* C7 (as claimed): the trace is read only after the wait for the transient
\* artifact succeeded, so the artifact exists when readHarFile is called
C7_ReadAfterArtifactExists ==
  pc = "read" => fs[harPath].kind # "absent"

\* C8 (as claimed): an entry that survives filtering and whose request body is
\* no JSON text has a record, with requestData the empty object
C8_UnparsableRequestKept ==
  TraceRead =>
    \A k \in 1..Len(trace) :
      ( /\ FilterPredicate(trace[k], HostOfRoute(route))
        /\ ~ JsonValid(requestText(trace[k])) )
      => \E i \in 1..Len(requests) :
           /\ requests[i].request = trace[k].request
           /\ requests[i].requestData = EmptyObject

\* C9 (as claimed): when a surviving entry has a response body that cannot be
\* decoded and parsed, every surviving entry still has a record, and the
\* record of the bad entry has the empty object as response
C9_UnparsableResponseTolerated ==
  TraceRead =>
    \A k \in 1..Len(trace) :
      ( /\ FilterPredicate(trace[k], HostOfRoute(route))
        /\ JsonValid(requestText(trace[k]))
        /\ ~ JsonValid(responseString(trace[k])) )
      => /\ \E i \in 1..Len(requests) :
              /\ requests[i].request = trace[k].request
              /\ requests[i].response = EmptyObject
         /\ \A j \in 1..Len(trace) :
              FilterPredicate(trace[j], HostOfRoute(route)) => HasRecord(trace[j])

\* the positions of the trace whose entries survive filtering
Surviving == { k \in 1..Len(trace) : FilterPredicate(trace[k], HostOfRoute(route)) }

\* C10: the records are in the order of the entries they come from: the
\* record of the n-th surviving entry of the trace is the n-th record
C10_OrderPreserved ==
  TraceNormalized =>
    /\ Len(requests) = Cardinality(Surviving)
    /\ \A k \in Surviving :
         requests[Cardinality({ j \in Surviving : j <= k })].request = trace[k].request

\* readHarFile resolved with the records of two different entries
C10_Witness ==
  /\ TraceNormalized
  /\ Len(requests) = 2
  /\ requests[1].request # requests[2].request

(***************************************************************************)
(* C11..C16                                                                *)
(***************************************************************************)
\* the file at path p holds a raw trace of the session, whole or cut short
HoldsRawTrace(p) == fs[p].kind \in { "har", "truncated" }

\* C11 (as claimed): for every filePath, the session records to a path other
\* than filePath, so that the raw trace is never written to the mock-set path
C11_TraceNeverAtFilePath == ~ HoldsRawTrace(filePath)

\* C11 (amended): for every filePath that contains ".json", the session
\* records to a path other than filePath, and the raw trace is never written
\* to filePath
C11_TraceNeverAtJsonFilePath ==
  Includes(filePath, JsonExt) =>
    /\ harPath # filePath
    /\ ~ HoldsRawTrace(filePath)

\* the session of a recordHar given a filePath with ".json" has been closed
\* and has left the trace of the traffic it observed at harPath
C11_Witness ==
  /\ Includes(filePath, JsonExt)
  /\ pc = "wait"
  /\ trace # << >>
  /\ fs[harPath] = HarFile(trace)

\* the positions of recordHar up to and including its suspension in page.pause()
BeforeResume == { "launch", "newPage", "goto", "pause" }

\* a step taken before the resume leaves the files and requests as they are,
\* and it either stays before the resume, or is the resume, or is a rejection
\* that ends recordHar
QuietBeforeResume ==
  pc \in BeforeResume =>
    /\ fs' = fs
    /\ requests' = requests
    /\ \/ pc' \in BeforeResume
       \/ Resume
       \/ pc' = "done" /\ outcome' = "raised"

\* C12: before the operator's resume signal recordHar writes and removes no
\* file and reads no trace, and it gets past page.pause() (to closing the
\* session and all that follows) by the resume signal alone
C12_NothingBeforeResume == [][QuietBeforeResume]_vars

\* recordHar is suspended in page.pause() while the session has observed
\* traffic, and no file has been touched
C12_Witness ==
  /\ pc = "pause"
  /\ trace # << >>
  /\ requests = << >>
  /\ \A p \in Paths : fs[p].kind = "absent"

\* a step of recordHar writes the mock set at most once and over no mock set:
\* the mock set at filePath changes by the write step alone, the write step
\* is reached once (from reading the trace), and it finds no mock set at
\* filePath
WritesOnceOverNothing ==
  /\ (fs'[filePath] # fs[filePath] /\ fs'[filePath].kind = "mocks")
       => (pc = "write" /\ pc' = "remove")
  /\ (pc' = "write" /\ pc # "write") => pc = "read"
  /\ (pc = "write" /\ pc' = "remove") => fs[filePath].kind # "mocks"

\* C13 (as claimed): recordHar writes the mock-set file at most once per
\* invocation and never overwrites a mock set that is already at filePath
\* when the write step is reached
C13_WrittenOnceNeverOverwritten == [][WritesOnceOverNothing]_vars

\* the JSON text of the response body of e as the HAR gives it: the text
\* decoded when its encoding is base64, the text itself otherwise, "{}" for
\* an empty or absent body
RecordedBody(e) ==
  LET c == e.response.content
  IN IF c.text = "" THEN "{}"
     ELSE IF c.encoding = "base64" THEN Base64Decode(c.text)
     ELSE c.text

\* C14 (as claimed): a response body is base64-decoded only when the entry
\* marks it base64; a body recorded as plain JSON text is parsed as it is, an
\* empty or absent body gives the empty object: every surviving entry whose
\* request body parses and whose recorded body is a JSON text has a record
\* with that body parsed as response
C14_DecodedOnlyWhenBase64 ==
  TraceRead =>
    \A k \in 1..Len(trace) :
      ( /\ FilterPredicate(trace[k], HostOfRoute(route))
        /\ JsonValid(requestText(trace[k]))
        /\ JsonValid(RecordedBody(trace[k])) )
      => \E i \in 1..Len(requests) :
           /\ requests[i].request = trace[k].request
           /\ requests[i].response = JsonParse(RecordedBody(trace[k]))

\* C15 (as claimed): when recordHar returns a non-empty list, no step of it
\* failed and the mock set at filePath is that list (unless filePath is also
\* the path of the artifact, removed after the write); when persisting did not
\* succeed, the returned list is empty
C15_NonEmptyOnlyIfPersisted ==
  (pc = "done" /\ outcome = "returned") =>
    /\ returned # << >> =>
         /\ failedAt = "none"
         /\ harPath # filePath => fs[filePath] = MockFile(returned)
    /\ failedAt # "none" => returned = << >>

\* recordHar has finished: it returned a list or raised
Finished == outcome \in { "returned", "raised" }

\* C16 (as claimed): once the operator has resumed and the session is closed,
\* recordHar finishes, whatever the trace artifact holds: it never comes to a
\* state in which no step of it remains and it has neither returned nor raised
C16_FinishesAfterClose == pc = "done" => Finished

=============================================================================
